---- MODULE Spec2Model ----
(***************************************************************************)
(* A model of react-svg-icon-preview: the markup normalizer (utils.ts),    *)
(* the declaration scanner (svgParser.ts) and the editor integration       *)
(* (hoverProvider.ts, decorationProvider.ts, extension activation).        *)
(*                                                                         *)
(* Text is modelled as a sequence of tokens.  A token is a record          *)
(*   [k, n, s, f, v]                                                       *)
(* k: kind        "open"  `<tag`        n = <<tag>>                        *)
(*                "gt"    `>`  (end of an opening tag)                     *)
(*                "sc"    `/>` (end of a self-closing tag)                 *)
(*                "close" `</tag>`      n = <<tag>>                        *)
(*                "attr"  ` name=value` (with the white space before it)   *)
(*                "spread" ` {...v}`                                       *)
(*                "kw"    a word or punctuation of the host language, v    *)
(*                "nl"    a newline character                              *)
(* n: the words of an attribute name, s: how they are joined               *)
(*                "plain" one word          width                          *)
(*                "camel" camelCase         strokeWidth, viewBox           *)
(*                "kebab" hyphenated        stroke-width, view-box         *)
(* f: the form of an attribute value                                       *)
(*                "lit"  "v"     "num" {v} with v a number                 *)
(*                "str"  {"v"}   "tern" {props.x ? props.x : "v"}          *)
(*                "or"   {props.x || "v"}    "expr" {v} with v a name      *)
(* v: the value text, as the sequence of its space-separated words; an     *)
(*    optional value (a regex capture, an option of a call) is a sequence  *)
(*    of zero or one element.                                              *)
(* The regular expressions of the source are translated to what they       *)
(* match on such token sequences.                                          *)
(***************************************************************************)
EXTENDS Integers, Sequences, FiniteSets, TLC

VARIABLES
    jsxString,      \* normalizer: the fragment handed to jsxToSvg
    options,        \* normalizer: the options of the call
    svgOut,         \* normalizer: the string returned by the last call
    svgPrev,        \* normalizer: the string returned by the call before
    pass,           \* normalizer: number of calls made so far
    source,         \* scanner: the declarations the scanned text is made of
    throwing,       \* scanner: the fragments on which the try block throws
    components,     \* scanner: the list returned by the last call on the text
    lastIndex,      \* scanner: lastIndex of the five module-level regexes
    seenNames,      \* scanner: what the last call left in its local seenNames
    calls,          \* scanner: number of calls made so far
    reference,      \* repeated calls: the list the first call on the text returned
    history,        \* repeated calls: the kinds of the calls made so far
    text,           \* raw file: the text handed to parseRawSvgFile
    fileName,       \* raw file: the file name handed to parseRawSvgFile
    config,         \* extension: the settings reactSvgPreview.*
    activated,      \* extension: "no", "yes" (activate has run) or "off" (deactivate has)
    documents,      \* extension: the text of every document, as its declarations
    activeTextEditor,  \* extension: the document of the active editor, if any
    componentCache,    \* hoverProvider.ts: componentCache
    cachedComponents,  \* decorationProvider.ts: cachedComponents
    decorationTypes,   \* decorationProvider.ts: decorationTypes
    tempFilePaths,     \* decorationProvider.ts: tempFilePaths
    timeout,        \* decorationProvider.ts: timeout, the handle of the last timer set
    pending,        \* extension: the timers that are set and have neither fired nor
                    \* been cleared, each with its handle and its editor
    hover,          \* extension: what provideHover has just returned
    lastUpdate,     \* extension: the document and the list of the call of
                    \* updateDecorations the last event ended with, if any
    edits,          \* extension: number of text changes so far
    atLine,         \* lookup: the line looked up in the list, -1 before
    foundAtLine,    \* lookup: what findComponentAtLine returned
    declaredAtLine  \* lookup: what isComponentDeclarationLine returned

normVars == <<jsxString, options, svgOut, svgPrev, pass>>
scanVars == <<source, throwing, components, lastIndex, seenNames, calls>>
callVars == <<reference, history>>
rawVars  == <<text, fileName>>
extVars  == <<config, activated, documents, activeTextEditor, componentCache,
              cachedComponents, decorationTypes, tempFilePaths, timeout, pending, hover, lastUpdate, edits>>
lineVars == <<atLine, foundAtLine, declaredAtLine>>
vars == <<normVars, scanVars, callVars, rawVars, extVars, lineVars>>

-----------------------------------------------------------------------------
(* Tokens *)

Tok(k, n, s, f, v) == [k |-> k, n |-> n, s |-> s, f |-> f, v |-> v]
Open(tag)          == Tok("open", <<tag>>, "tag", "", <<>>)
Close(tag)         == Tok("close", <<tag>>, "tag", "", <<>>)
Gt                 == Tok("gt", <<>>, "", "", <<>>)
Sc                 == Tok("sc", <<>>, "", "", <<>>)
Attr(n, s, f, v)   == Tok("attr", n, s, f, v)
Spread(v)          == Tok("spread", <<>>, "", "", <<v>>)

Min(S) == CHOOSE x \in S : \A y \in S : x <= y
Max(S) == CHOOSE x \in S : \A y \in S : x >= y

\* the string with t inserted after position i
InsertAfter(str, i, t) == SubSeq(str, 1, i) \o <<t>> \o SubSeq(str, i + 1, Len(str))
\* the string without position i
RemoveAt(str, i) == SubSeq(str, 1, i - 1) \o SubSeq(str, i + 1, Len(str))

IsTagEnd(t) == t.k \in {"gt", "sc"}
\* the `>` that ends the opening tag starting at i (Len+1 when there is none):
\* how far `[^>]*` can run from position i
RECURSIVE TagEndAfter(_, _)
TagEndAfter(str, i) ==
    IF i + 1 > Len(str) THEN Len(str) + 1
    ELSE IF IsTagEnd(str[i + 1]) THEN i + 1
    ELSE TagEndAfter(str, i + 1)

BraceForms == {"num", "str", "tern", "or", "expr"}

\* `name=` ends with the characters `word=` (String.includes / an unanchored regex)
NameEndsWith(t, word) ==
    /\ t.k = "attr"
    /\ Len(t.n) >= 1
    /\ t.n[Len(t.n)] = word
    /\ t.s \in {"plain", "kebab"}
\* `\s+word=` : white space, then exactly word, then `=`
NameIs(t, word) == t.k = "attr" /\ t.s = "plain" /\ t.n = <<word>>
\* the text `viewBox=` / `view-box=`
IsViewBoxCamel(t) == t.k = "attr" /\ t.s = "camel" /\ t.n = <<"view", "box">>
IsViewBoxKebab(t) == t.k = "attr" /\ t.s = "kebab" /\ t.n = <<"view", "box">>

\* the first occurrence of the text `<svg` (0 when there is none)
FirstSvg(str) ==
    LET S == {i \in 1..Len(str) : str[i] = Open("svg")}
    IN  IF S = {} THEN 0 ELSE Min(S)
\* svg.replace(/<svg/, `<svg name="v"`)
AddToFirstSvg(str, t) ==
    IF FirstSvg(str) = 0 THEN str ELSE InsertAfter(str, FirstSvg(str), t)

-----------------------------------------------------------------------------
(* utils.ts: convertJsxAttr, camelToKebab *)

\* camelToKebab: a hyphen before every inner capital, then lower case
camelToKebab(t) == [t EXCEPT !.s = IF Len(t.n) > 1 THEN "kebab" ELSE "plain"]

\* convertJsxAttr on the name of an attribute token: the entries of
\* jsxToSvgAttrMap that differ from camelToKebab, then camelToKebab for a name
\* with a capital, else the name unchanged
convertJsxAttr(t) ==
    IF t.s = "camel" /\ t.n = <<"class", "name">>
        THEN [t EXCEPT !.n = <<"class">>, !.s = "plain"]
    ELSE IF t.s = "camel" /\ t.n = <<"xlink", "href">>
        THEN [t EXCEPT !.s = "colon"]
    ELSE IF t.s = "camel" THEN camelToKebab(t)
    ELSE t

-----------------------------------------------------------------------------
(* utils.ts: jsxToSvg, step by step *)

LowerTag(tag) ==
    CASE tag \in {"Svg", "SVG"} -> "svg" [] tag = "Icon" -> "icon" [] OTHER -> tag
IsOpenCI(t, tags)  == t.k = "open" /\ LowerTag(t.n[1]) \in tags
IsCloseCI(t, tags) == t.k = "close" /\ LowerTag(t.n[1]) \in tags

\* the positions k of a `</svg>` directly followed by `</Icon>` or `</Svg>`
\* (case-insensitive), after position a
InnerEnds(str, a) ==
    {k \in (a + 1)..(Len(str) - 1) :
        IsCloseCI(str[k], {"svg"}) /\ IsCloseCI(str[k + 1], {"icon", "svg"})}

\* /<(?:Icon|Svg)\b[^>]*>\s*(<svg[\s\S]*<\/svg>)\s*<\/(?:Icon|Svg)>/i at i
WrapMatchAt(str, i) ==
    /\ IsOpenCI(str[i], {"icon", "svg"})
    /\ TagEndAfter(str, i) < Len(str)
    /\ IsOpenCI(str[TagEndAfter(str, i) + 1], {"svg"})
    /\ InnerEnds(str, TagEndAfter(str, i) + 1) # {}

\* svg.match(...) of line 87: <<first, last>> of capture group 1, <<0, 0>> when
\* there is no match; leftmost start, greedy [\s\S]*
innerSvgMatch(str) ==
    LET S == {i \in 1..Len(str) : WrapMatchAt(str, i)}
    IN  IF S = {} THEN <<0, 0>>
        ELSE LET a == TagEndAfter(str, Min(S)) + 1
             IN  <<a, Max(InnerEnds(str, a))>>

\* /<(?:Icon|Svg)\b[^>]*viewBox=["']([^"']+)["']/ : the value captured, as a
\* sequence of zero or one value
outerViewBoxMatch(str) ==
    LET Hit(i) == {j \in (i + 1)..(TagEndAfter(str, i) - 1) :
                      IsViewBoxCamel(str[j]) /\ str[j].f = "lit" /\ str[j].v # <<>>}
        S == {i \in 1..Len(str) :
                 str[i].k = "open" /\ str[i].n[1] \in {"Icon", "Svg"} /\ Hit(i) # {}}
    IN  IF S = {} THEN <<>> ELSE <<str[Max(Hit(Min(S)))].v>>

HasViewBoxText(str) == \E i \in 1..Len(str) : IsViewBoxCamel(str[i])

RenameTag(t) ==
    IF t.k \in {"open", "close"} /\ LowerTag(t.n[1]) \in {"icon", "svg"}
    THEN [t EXCEPT !.n = <<"svg">>] ELSE t

\* lines 92-97: the inner <svg> with the viewBox of the wrapper when it has
\* none of its own
WithOuterViewBox(inner, outer) ==
    IF outer # <<>> /\ ~HasViewBoxText(inner)
    THEN AddToFirstSvg(inner, Attr(<<"view", "box">>, "camel", "lit", outer[1]))
    ELSE inner
\* lines 91-103, m being innerSvgMatch
Unwrapped(str, m) ==
    IF m # <<0, 0>>
    THEN WithOuterViewBox(SubSeq(str, m[1], m[2]), outerViewBoxMatch(str))
    ELSE [i \in 1..Len(str) |-> RenameTag(str[i])]
\* lines 87-103: unwrap an Icon/Svg around an inner <svg>, else rename the tags
Unwrap(str) == Unwrapped(str, innerSvgMatch(str))

\* lines 106-114: ref={..}, {...props}, {...rest}, color="..", color={..}
IsHostOnly(t) ==
    \/ NameIs(t, "ref") /\ t.f \in BraceForms
    \/ t.k = "spread" /\ t.v \in {<<"props">>, <<"rest">>}
    \/ NameIs(t, "color") /\ t.f \in BraceForms \cup {"lit"}
KeepToken(t) == ~IsHostOnly(t)
RemoveHostOnly(str) == SelectSeq(str, KeepToken)

\* line 118: /(<svg[^>]*)\s+fill=["']none["']/ (first match only): the
\* leftmost `<svg` whose opening tag has a literal fill="none"; the greedy
\* [^>]* makes it the last one of that tag
IsFillNone(t) == NameIs(t, "fill") /\ t.f = "lit" /\ t.v = <<"none">>
RemoveRootFillNone(str) ==
    LET Hit(i) == {j \in (i + 1)..(TagEndAfter(str, i) - 1) : IsFillNone(str[j])}
        S == {i \in 1..Len(str) : str[i] = Open("svg") /\ Hit(i) # {}}
    IN  IF S = {} THEN str ELSE RemoveAt(str, Max(Hit(Min(S))))

\* lines 121-160: attr={16}, attr={"v"}, attr={props.x ? props.x : "v"},
\* attr={props.x || "v"} become attr="v" (`(\w+)=` matches the end of any name)
Coerce(t) ==
    IF t.k = "attr" /\ t.f \in {"num", "str", "tern", "or"} /\ t.v # <<>>
    THEN [t EXCEPT !.f = "lit"] ELSE t
CoerceExpressions(str) == [i \in 1..Len(str) |-> Coerce(str[i])]

\* String.prototype.replace with a string as replacement: in it `$&` stands
\* for the matched text and `$$` for a `$` (the regex has no groups; the
\* colours of the model hold no other `$` pattern)
Replacement(color, matched) ==
    CASE color = "$&" -> matched
      [] color = "$$" -> "$"
      [] OTHER -> color
\* line 163: svg.replace(/currentColor/g, defaultFillColor)
ReplaceCurrentColor(str, color) ==
    [i \in 1..Len(str) |->
        [str[i] EXCEPT !.v = [j \in 1..Len(str[i].v) |->
            IF str[i].v[j] = "currentColor" THEN Replacement(color, "currentColor")
            ELSE str[i].v[j]]]]

\* lines 167-170: /\s(\w+)=/g : white space, a whole word, `=` - a name with a
\* hyphen or a colon in it is not matched
RenameAttr(t) ==
    IF t.k = "attr" /\ t.s \in {"plain", "camel"} THEN convertJsxAttr(t) ELSE t
RenameAttributes(str) == [i \in 1..Len(str) |-> RenameAttr(str[i])]

\* line 173: /\s+\w+=\{[^}]*\}/g
IsResidual(t) == t.k = "attr" /\ t.s \in {"plain", "camel"} /\ t.f \in BraceForms
KeepResolved(t) == ~IsResidual(t)
StripResidual(str) == SelectSeq(str, KeepResolved)

\* line 176: svg.match(/view-box=["']([^"']+)["']/), zero or one value
viewBoxMatch(str) ==
    LET S == {i \in 1..Len(str) :
                 IsViewBoxKebab(str[i]) /\ str[i].f = "lit" /\ str[i].v # <<>>}
    IN  IF S = {} THEN <<>> ELSE <<str[Min(S)].v>>

\* line 180: svg.replace(/view-box=/g, 'viewBox=')
FixViewBoxName(str) ==
    [i \in 1..Len(str) |->
        IF IsViewBoxKebab(str[i]) THEN [str[i] EXCEPT !.s = "camel"] ELSE str[i]]

\* the numbers that occur in the model's texts, and parseInt / parseFloat on them
Numerals == {"0", "2", "4", "16", "20", "24", "32", "40"}
ParseNumber(w) ==
    CASE w = "0" -> 0 [] w = "2" -> 2 [] w = "4" -> 4 [] w = "16" -> 16
      [] w = "20" -> 20 [] w = "24" -> 24 [] w = "32" -> 32 [] w = "40" -> 40

\* lines 191-205: the largest number below 1000 in a d="..." text (a name that
\* ends in d, a quoted value)
IsPathData(t) == t.k = "attr" /\ t.f = "lit" /\ t.v # <<>> /\ t.n[Len(t.n)] \in {"d", "id"}
maxCoord(str) ==
    LET NumbersOf(v) == {ParseNumber(v[j]) : j \in {j \in 1..Len(v) : v[j] \in Numerals}}
        N == UNION {NumbersOf(str[i].v) : i \in {i \in 1..Len(str) : IsPathData(str[i])}}
        Small == {x \in N : x < 1000}
    IN  IF Small = {} THEN 0 ELSE Max(Small)

\* lines 210-215
BucketSize(m) ==
    IF m > 64 THEN ((m + 9) \div 10) * 10
    ELSE IF m > 48 THEN 64
    ELSE IF m > 32 THEN 48
    ELSE IF m > 24 THEN 32
    ELSE IF m > 16 THEN 24
    ELSE 16

ViewBoxOf(w, h) == <<"0", "0", ToString(w), ToString(h)>>
LitAttr(word, v) == Attr(<<word>>, "plain", "lit", v)

\* lines 183-185
EnsureXmlns(str) ==
    IF \E i \in 1..Len(str) : NameEndsWith(str[i], "xmlns")
    THEN str
    ELSE AddToFirstSvg(str, LitAttr("xmlns", <<"http://www.w3.org/2000/svg">>))

\* lines 207-219, m being maxCoord
InferredViewBox(m, viewBox) ==
    IF m > 0 THEN ViewBoxOf(BucketSize(m), BucketSize(m)) ELSE viewBox
\* lines 188-220
EnsureViewBox(str, viewBox) ==
    IF HasViewBoxText(str) THEN str
    ELSE AddToFirstSvg(str, Attr(<<"view", "box">>, "camel", "lit",
                                 InferredViewBox(maxCoord(str), viewBox)))

\* lines 223-228: svg.includes('width=') is true of any text `...width=`
EnsureSize(str, word, n) ==
    IF \E i \in 1..Len(str) : NameEndsWith(str[i], word)
    THEN str
    ELSE AddToFirstSvg(str, LitAttr(word, <<ToString(n)>>))

\* line 82: the defaults of the options
OptOr(opt, default) == IF opt = <<>> THEN default ELSE opt[1]

\* lines 84-173: the steps up to the removal of the residual expressions
Resolved(str, defaultFillColor) ==
    StripResidual(RenameAttributes(ReplaceCurrentColor(
        CoerceExpressions(RemoveRootFillNone(RemoveHostOnly(Unwrap(str)))),
        defaultFillColor)))
\* lines 176-177, m being viewBoxMatch
FoundOr(m, default) == IF m # <<>> THEN m[1] ELSE default
\* lines 176-228 on the string svg the steps before left
Completed(svg, width, height, viewBox) ==
    EnsureSize(
        EnsureSize(
            EnsureViewBox(EnsureXmlns(FixViewBoxName(svg)),
                          FoundOr(viewBoxMatch(svg), OptOr(viewBox, ViewBoxOf(width, height)))),
            "width", width),
        "height", height)
\* lines 73-231
jsxToSvg(str, opts) ==
    Completed(Resolved(str, OptOr(opts.defaultFillColor, "#888888")),
              OptOr(opts.width, 16), OptOr(opts.height, 16), opts.viewBox)

-----------------------------------------------------------------------------
(* svgParser.ts: the five PATTERNS on token sequences *)

Kw(w) == Tok("kw", <<>>, "", "", <<w>>)
Nl    == Tok("nl", <<>>, "", "", <<>>)
Eof   == Tok("eof", <<>>, "", "", <<>>)

\* the token at position i, Eof outside the text
At(txt, i) == IF i \in 1..Len(txt) THEN txt[i] ELSE Eof
IsKw(t, w) == t.k = "kw" /\ t.v = <<w>>
\* \w+ : an identifier, a keyword or a number
Punctuation == {"(", ")", "{", "}", "=", "=>", "<T>", ","}
IsWord(t) == t.k = "kw" /\ t.v[1] \notin Punctuation
\* \s* and \s+ : the first position from i on that is not white space
RECURSIVE Skip(_, _)
Skip(txt, i) ==
    IF i > Len(txt) THEN Len(txt) + 1
    ELSE IF txt[i].k # "nl" THEN i
    ELSE Skip(txt, i + 1)
\* [^)]*\) and [^(]*\( : the first position from i on that holds w
RECURSIVE FirstKw(_, _, _)
FirstKw(txt, i, w) ==
    IF i > Len(txt) THEN Len(txt) + 1
    ELSE IF IsKw(txt[i], w) THEN i
    ELSE FirstKw(txt, i + 1, w)

RootTags == {"svg", "Svg", "Icon"}
NoMatch == [a |-> 0, b |-> 0, e |-> 0]

\* \(\s*(<(?:svg|Svg|Icon)\b[\s\S]*?<\/(?:svg|Svg|Icon)>)\s*\) with the `(`
\* expected at or after white space from j: a..b is capture group 2, e the
\* closing `)`. The lazy [\s\S]*? stops at the first closing tag that is
\* followed by `)`.
ParenRoot(txt, j) ==
    LET p == Skip(txt, j)
        a == Skip(txt, p + 1)
        B == {b \in (a + 1)..Len(txt) :
                 /\ txt[b].k = "close" /\ txt[b].n[1] \in RootTags
                 /\ IsKw(At(txt, Skip(txt, b + 1)), ")")}
    IN  IF /\ IsKw(At(txt, p), "(")
           /\ At(txt, a).k = "open" /\ At(txt, a).n[1] \in RootTags
           /\ B # {}
        THEN [a |-> a, b |-> Min(B), e |-> Skip(txt, Min(B) + 1)]
        ELSE NoMatch

\* \{[\s\S]*?return\s*  followed by ParenRoot: the `{` expected from j; the lazy
\* [\s\S]*? runs to the first `return` after which ParenRoot matches - whatever
\* lies in between
ReturnParenRoot(txt, j) ==
    LET p == Skip(txt, j)
        R == {r \in (p + 1)..Len(txt) :
                 IsKw(txt[r], "return") /\ ParenRoot(txt, r + 1) # NoMatch}
    IN  IF IsKw(At(txt, p), "{") /\ R # {} THEN ParenRoot(txt, Min(R) + 1) ELSE NoMatch

\* \(\s*\([^)]*\)\s*=>  or  \([^)]*\)\s*=> : the position after the `=>` (0:
\* no match), the parameter list starting at or after white space from j
ArrowHead(txt, j) ==
    LET p == Skip(txt, j)
        q == FirstKw(txt, p + 1, ")")
        r == Skip(txt, q + 1)
    IN  IF IsKw(At(txt, p), "(") /\ q <= Len(txt) /\ IsKw(At(txt, r), "=>")
        THEN r + 1 ELSE 0

\* export\s+const\s+(\w+)\s*(?::\s*[^=]+)?\s*=\s* : the position after the
\* `=` (0: no match); the texts of the model hold no type annotation
ExportConst(txt, i) ==
    LET c == Skip(txt, i + 1)
        n == Skip(txt, c + 1)
        q == Skip(txt, n + 1)
    IN  IF /\ IsKw(At(txt, i), "export") /\ IsKw(At(txt, c), "const")
           /\ IsWord(At(txt, n)) /\ IsKw(At(txt, q), "=")
        THEN q + 1 ELSE 0

WithName(m, n) == [a |-> m.a, b |-> m.b, e |-> m.e, n |-> n]
Fail == WithName(NoMatch, 0)
\* the match m of the tail of a pattern with capture group 1 at position n
Named(m, n) == IF m = NoMatch THEN Fail ELSE WithName(m, n)
\* an optional part of a pattern: the match with it, else the match without it
OrElse(with, without, none) == IF with # none THEN with ELSE without

\* (?:\{[\s\S]*?return\s*)?  followed by ParenRoot
OptReturnParenRoot(txt, j) == OrElse(ReturnParenRoot(txt, j), ParenRoot(txt, j), NoMatch)

\* line 33, matched at position i
functionComponent(txt, i) ==
    LET d == Skip(txt, i + 1)
        f == IF IsKw(At(txt, d), "default") THEN Skip(txt, d + 1) ELSE d
        n == Skip(txt, f + 1)
        p == Skip(txt, n + 1)
        q == FirstKw(txt, p + 1, ")")
    IN  IF /\ IsKw(At(txt, i), "export") /\ IsKw(At(txt, f), "function")
           /\ IsWord(At(txt, n)) /\ IsKw(At(txt, p), "(") /\ q <= Len(txt)
        THEN Named(ReturnParenRoot(txt, q + 1), n) ELSE Fail

\* export\s+const\s+(\w+)...=\s* and the arrow head: the position after the
\* `=>` (0: no match)
ConstArrow(txt, i) == IF ExportConst(txt, i) = 0 THEN 0 ELSE ArrowHead(txt, ExportConst(txt, i))
\* the position of (\w+) in export\s+const\s+(\w+)
ConstName(txt, i) == Skip(txt, Skip(txt, i + 1) + 1)

\* line 36
arrowFunctionDirect(txt, i) ==
    IF ConstArrow(txt, i) # 0 THEN Named(ParenRoot(txt, ConstArrow(txt, i)), ConstName(txt, i))
    ELSE Fail

\* line 39
arrowFunctionReturn(txt, i) ==
    IF ConstArrow(txt, i) # 0
    THEN Named(ReturnParenRoot(txt, ConstArrow(txt, i)), ConstName(txt, i))
    ELSE Fail

\* const\s+(\w+)\s*=\s*wrapper[^(]*\(\s* then the arrow head and the body
Wrapped(txt, c, wrapper, generic) ==
    LET n == Skip(txt, c + 1)
        q == Skip(txt, n + 1)
        f == Skip(txt, q + 1)
        p == IF generic THEN FirstKw(txt, f + 1, "(") ELSE Skip(txt, f + 1)
    IN  IF /\ IsKw(At(txt, c), "const") /\ IsWord(At(txt, n)) /\ IsKw(At(txt, q), "=")
           /\ IsKw(At(txt, f), wrapper) /\ IsKw(At(txt, p), "(")
           /\ ArrowHead(txt, p + 1) # 0
        THEN Named(OptReturnParenRoot(txt, ArrowHead(txt, p + 1)), n) ELSE Fail

\* export\s+ then Wrapped
ExportWrapped(txt, i, wrapper, generic) ==
    IF IsKw(At(txt, i), "export") THEN Wrapped(txt, Skip(txt, i + 1), wrapper, generic)
    ELSE Fail

\* line 42
forwardRef(txt, i) == ExportWrapped(txt, i, "forwardRef", TRUE)

\* line 45: (?:export\s+)?const...
memo(txt, i) == OrElse(ExportWrapped(txt, i, "memo", FALSE), Wrapped(txt, i, "memo", FALSE), Fail)

\* Object.entries(PATTERNS): the patterns in their order of definition
PatternNames == <<"functionComponent", "arrowFunctionDirect", "arrowFunctionReturn",
                  "forwardRef", "memo">>
MatchAt(p, txt, i) ==
    CASE p = "functionComponent"   -> functionComponent(txt, i)
      [] p = "arrowFunctionDirect" -> arrowFunctionDirect(txt, i)
      [] p = "arrowFunctionReturn" -> arrowFunctionReturn(txt, i)
      [] p = "forwardRef"          -> forwardRef(txt, i)
      [] p = "memo"                -> memo(txt, i)

\* what pattern p matches in txt, by the position the match starts at
Matches(p, txt) == [i \in 1..Len(txt) |-> MatchAt(p, txt, i)]

\* the leftmost of the starts in S, 0 when there is none
Leftmost(S) == IF S = {} THEN 0 ELSE Min(S)
\* pattern.exec(text) of a global regex, matches being what the pattern matches
\* in the text: the start i of the leftmost match that starts at or after
\* lastIndex (from: the number of tokens before that position), 0 when there is
\* none. lastIndex becomes the end of that match, or 0 when there is none.
Exec(matches, from) == Leftmost({i \in (from + 1)..Len(matches) : matches[i] # Fail})

-----------------------------------------------------------------------------
(* svgParser.ts: extractSvgAttributes, line numbers, parseSvgComponents *)

\* lines 54-67: the first viewBox="..." and the first width= / height= that is
\* followed by digits, with or without `{` - a quote after the `=` is no digit
FirstValue(jsx, Test(_)) ==
    LET S == {i \in 1..Len(jsx) : Test(jsx[i])}
    IN  IF S = {} THEN <<>> ELSE <<jsx[Min(S)].v>>
IsDigitsAfter(t, word) ==
    NameEndsWith(t, word) /\ t.f = "num" /\ t.v # <<>> /\ t.v[1] \in Numerals
\* parseInt of a captured value
ParseOpt(w) == IF w = <<>> THEN <<>> ELSE <<ParseNumber(w[1][1])>>
extractSvgAttributes(jsx) ==
    [viewBox |-> FirstValue(jsx, LAMBDA t : IsViewBoxCamel(t) /\ t.f = "lit" /\ t.v # <<>>),
     width   |-> ParseOpt(FirstValue(jsx, LAMBDA t : IsDigitsAfter(t, "width"))),
     height  |-> ParseOpt(FirstValue(jsx, LAMBDA t : IsDigitsAfter(t, "height")))]

\* the number of newline characters in txt[from..to]
Newlines(txt, from, to) == Cardinality({j \in from..to : j \in 1..Len(txt) /\ txt[j].k = "nl"})
NewlinesIn(txt) == Newlines(txt, 1, Len(txt))
\* lines 75-78: position is the first token of the match
getLineNumber(txt, position) == Newlines(txt, 1, position - 1)
\* lines 83-88
getEndLineNumber(txt, startPosition, endPosition) ==
    getLineNumber(txt, startPosition) + Newlines(txt, startPosition, endPosition)

\* a sort by startLine that reverses the components of equal startLine
SortTiesReversed(cs) ==
    LET Before(i, j) == \/ cs[i].startLine < cs[j].startLine
                        \/ cs[i].startLine = cs[j].startLine /\ i > j
        Rank(j) == 1 + Cardinality({i \in 1..Len(cs) : Before(i, j)})
    IN  [r \in 1..Len(cs) |-> cs[CHOOSE j \in 1..Len(cs) : Rank(j) = r]]

\* line 144: Array.prototype.sort with (a, b) => a.startLine - b.startLine,
\* which is stable
SortByStartLine(cs) ==
    LET Before(i, j) == \/ cs[i].startLine < cs[j].startLine
                        \/ cs[i].startLine = cs[j].startLine /\ i < j
        Rank(j) == 1 + Cardinality({i \in 1..Len(cs) : Before(i, j)})
    IN  [r \in 1..Len(cs) |-> cs[CHOOSE j \in 1..Len(cs) : Rank(j) = r]]

\* lines 115-133: the record pushed for the match m that starts at i, jsx being
\* capture group 2 and attrs what extractSvgAttributes finds in it
Component(txt, i, m, jsx, attrs, defaultFillColor) ==
    [name      |-> txt[m.n].v[1],
     startLine |-> getLineNumber(txt, i),
     endLine   |-> getEndLineNumber(txt, i, m.e),
     rawJsx    |-> jsx,
     svg       |-> jsxToSvg(jsx, [defaultFillColor |-> defaultFillColor,
                                   width |-> attrs.width, height |-> attrs.height,
                                   viewBox |-> attrs.viewBox]),
     viewBox   |-> attrs.viewBox,
     width     |-> attrs.width,
     height    |-> attrs.height]
ComponentOf(txt, i, m, defaultFillColor) ==
    Component(txt, i, m, SubSeq(txt, m.a, m.b),
              extractSvgAttributes(SubSeq(txt, m.a, m.b)), defaultFillColor)

\* seenNames kept from call to call
KeptSeenNames(old) == old
\* line 98: seenNames starts empty in every call (old: what an earlier call left)
NewSeenNames(old) == {}
\* line 103: pattern.lastIndex = 0 (old: what an earlier call left)
ResetLastIndex(old) == 0

\* LoopBody without the test of seenNames: a match with a known name is
\* pushed once more
LoopBody_NoSeenCheck(p, txt, defaultFillColor, throws, acc, i, m) ==
    IF SubSeq(txt, m.a, m.b) \in throws
        THEN [acc EXCEPT !.lastIndex[p] = m.e]
    ELSE [acc EXCEPT !.lastIndex[p] = m.e,
                     !.components = Append(@, ComponentOf(txt, i, m, defaultFillColor)),
                     !.seenNames = @ \cup {txt[m.n].v[1]}]
\* LoopBody with the name marked as seen before the try block
LoopBody_SeenBeforeTry(p, txt, defaultFillColor, throws, acc, i, m) ==
    IF txt[m.n].v[1] \in acc.seenNames
        THEN [acc EXCEPT !.lastIndex[p] = m.e]
    ELSE IF SubSeq(txt, m.a, m.b) \in throws
        THEN [acc EXCEPT !.lastIndex[p] = m.e, !.seenNames = @ \cup {txt[m.n].v[1]}]
    ELSE [acc EXCEPT !.lastIndex[p] = m.e,
                     !.components = Append(@, ComponentOf(txt, i, m, defaultFillColor)),
                     !.seenNames = @ \cup {txt[m.n].v[1]}]

\* lines 107-139: the body of the while loop for the match m of pattern p that
\* starts at i. acc holds components, seenNames and the lastIndex of every
\* pattern. A known name is skipped; a fragment in throws makes the try block
\* throw, the catch clause logs and nothing is recorded; otherwise the
\* component is pushed and its name marked as seen.
LoopBody(p, txt, defaultFillColor, throws, acc, i, m) ==
    IF txt[m.n].v[1] \in acc.seenNames
        THEN [acc EXCEPT !.lastIndex[p] = m.e]
    ELSE IF SubSeq(txt, m.a, m.b) \in throws
        THEN [acc EXCEPT !.lastIndex[p] = m.e]
    ELSE [acc EXCEPT !.lastIndex[p] = m.e,
                     !.components = Append(@, ComponentOf(txt, i, m, defaultFillColor)),
                     !.seenNames = @ \cup {txt[m.n].v[1]}]

\* lines 106-140: while ((match = pattern.exec(text)) !== null), i being the
\* start of the match the exec found: the loop ends with the first exec that
\* finds nothing, which sets lastIndex to 0.
RECURSIVE MatchLoop(_, _, _, _, _, _)
LoopTurn(p, txt, matches, defaultFillColor, throws, acc, i) ==
    IF i = 0 THEN [acc EXCEPT !.lastIndex[p] = 0]
    ELSE MatchLoop(p, txt, matches, defaultFillColor, throws,
                   LoopBody(p, txt, defaultFillColor, throws, acc, i, matches[i]))
MatchLoop(p, txt, matches, defaultFillColor, throws, acc) ==
    LoopTurn(p, txt, matches, defaultFillColor, throws, acc, Exec(matches, acc.lastIndex[p]))

\* lines 101-141: for (const [, pattern] of Object.entries(PATTERNS)), from the
\* k-th pattern on
RECURSIVE PatternLoop(_, _, _, _, _)
PatternLoop(k, txt, defaultFillColor, throws, acc) ==
    IF k > Len(PatternNames) THEN acc
    ELSE PatternLoop(k + 1, txt, defaultFillColor, throws,
             MatchLoop(PatternNames[k], txt, Matches(PatternNames[k], txt),
                       defaultFillColor, throws,
                       [acc EXCEPT !.lastIndex[PatternNames[k]] = ResetLastIndex(@)]))

\* line 144 on what the loops leave
Sorted(acc) == [acc EXCEPT !.components = SortByStartLine(@)]

\* lines 93-147. regex: the lastIndex of the five module-level regexes when the
\* call starts; seen: the names an earlier call left in its seenNames. The
\* result holds the list returned and the state the call leaves behind.
parseSvgComponents(txt, defaultFillColor, throws, regex, seen) ==
    Sorted(PatternLoop(1, txt, defaultFillColor, throws,
               [components |-> <<>>, seenNames |-> NewSeenNames(seen), lastIndex |-> regex]))

-----------------------------------------------------------------------------
(* svgParser.ts: parseRawSvgFile, isRawSvgContent *)

\* the text `<?xml ...?>`
Prolog == Tok("prolog", <<>>, "", "", <<>>)

\* String.prototype.trim: the white space of a text is its newlines
RECURSIVE TrimStart(_)
TrimStart(txt) ==
    IF txt # <<>> /\ txt[1].k = "nl" THEN TrimStart(SubSeq(txt, 2, Len(txt))) ELSE txt
RECURSIVE TrimEnd(_)
TrimEnd(txt) ==
    IF txt # <<>> /\ txt[Len(txt)].k = "nl" THEN TrimEnd(SubSeq(txt, 1, Len(txt) - 1)) ELSE txt
Trim(txt) == TrimEnd(TrimStart(txt))

\* startsWith('<svg') || startsWith('<?xml')
StartsRaw(trimmed) ==
    trimmed # <<>> /\ (trimmed[1] = Open("svg") \/ trimmed[1].k = "prolog")
\* lines 220-223
isRawSvgContent(txt) == StartsRaw(Trim(txt))

\* line 186: trimmedText.match(/<svg[\s\S]*<\/svg>/i): <<first, last>> of the
\* match, <<0, 0>> when there is none; leftmost `<svg`, greedy [\s\S]*
svgMatch(trimmed) ==
    LET S == {i \in 1..Len(trimmed) : IsOpenCI(trimmed[i], {"svg"})}
        E == {j \in 1..Len(trimmed) : IsCloseCI(trimmed[j], {"svg"})}
    IN  IF S = {} \/ E = {} THEN <<0, 0>>
        ELSE IF Max(E) < Min(S) THEN <<0, 0>>
        ELSE <<Min(S), Max(E)>>

\* a file name is a sequence of parts: words of letters and digits, and single
\* characters that are neither
OtherChars == {".", "-", " "}
LowerPart(part) == IF part \in {"SVG", "Svg"} THEN "svg" ELSE part
\* fileName with its last `.` and what follows it removed, whatever follows
StripAnySuffix(name) ==
    IF Len(name) >= 2 /\ name[Len(name) - 1] = "." /\ name[Len(name)] \notin OtherChars
    THEN SubSeq(name, 1, Len(name) - 2) ELSE name
\* line 198: fileName.replace(/\.svg$/i, '')
StripSvgSuffix(name) ==
    IF /\ Len(name) >= 2
       /\ name[Len(name) - 1] = "."
       /\ LowerPart(name[Len(name)]) = "svg"
    THEN SubSeq(name, 1, Len(name) - 2) ELSE name
\* line 198: .replace(/[^a-zA-Z0-9]/g, '_')
Underscored(name) == [i \in 1..Len(name) |-> IF name[i] \in OtherChars THEN "_" ELSE name[i]]

\* lines 193-195: attr=["']([^"']+)["'] - a quoted value after the text `attr=`
IsQuoted(t) == t.f = "lit" /\ t.v # <<>>
\* lines 202-212: the component pushed for the span svg
RawComponent(txt, name, svg) ==
    [name      |-> Underscored(StripSvgSuffix(name)),
     startLine |-> 0,
     endLine   |-> Newlines(txt, 1, Len(txt)),
     rawJsx    |-> svg,
     svg       |-> svg,
     viewBox   |-> FirstValue(svg, LAMBDA t : IsViewBoxCamel(t) /\ IsQuoted(t)),
     width     |-> ParseOpt(FirstValue(svg, LAMBDA t : NameEndsWith(t, "width") /\ IsQuoted(t))),
     height    |-> ParseOpt(FirstValue(svg, LAMBDA t : NameEndsWith(t, "height") /\ IsQuoted(t))),
     isRawSvg  |-> TRUE]
\* lines 185-191
RawMatch(txt, name, trimmed, m) ==
    IF m = <<0, 0>> THEN <<>>
    ELSE <<RawComponent(txt, name, SubSeq(trimmed, m[1], m[2]))>>
\* lines 179-183
RawTrimmed(txt, name, trimmed) ==
    IF ~StartsRaw(trimmed) THEN <<>>
    ELSE RawMatch(txt, name, trimmed, svgMatch(trimmed))
\* lines 172-215
parseRawSvgFile(txt, name) == RawTrimmed(txt, name, Trim(txt))

-----------------------------------------------------------------------------
(* The values of the variables a specification does not use *)

IdleNorm ==
    /\ jsxString = <<>>
    /\ options = [defaultFillColor |-> <<>>, width |-> <<>>, height |-> <<>>, viewBox |-> <<>>]
    /\ svgOut = <<>>
    /\ svgPrev = <<>>
    /\ pass = 0

NoLastIndex == [p \in {PatternNames[k] : k \in 1..Len(PatternNames)} |-> 0]

IdleScan ==
    /\ source = <<>>
    /\ throwing = {}
    /\ components = <<>>
    /\ lastIndex = NoLastIndex
    /\ seenNames = {}
    /\ calls = 0

IdleCalls ==
    /\ reference = <<>>
    /\ history = <<>>

IdleRaw ==
    /\ text = <<>>
    /\ fileName = <<>>

\* no line looked up
IdleLookup ==
    /\ atLine = -1
    /\ foundAtLine = <<>>
    /\ declaredAtLine = <<>>

-----------------------------------------------------------------------------
(* The fragments and options the normalizer is run on *)

MaxRootAttrs  == 2
MaxChildAttrs == 1

RootAttrPool == <<
    LitAttr("width", <<"24">>),
    Attr(<<"height">>, "plain", "num", <<"24">>),
    Attr(<<"view", "box">>, "camel", "lit", <<"0", "0", "24", "24">>),
    LitAttr("fill", <<"none">>),
    Attr(<<"fill">>, "plain", "or", <<"none">>),
    LitAttr("stroke", <<"currentColor">>),
    Attr(<<"stroke", "width">>, "camel", "expr", <<"size">>),
    Spread("props") >>

ChildAttrPool == <<
    LitAttr("d", <<"M", "2", "20", "z">>),
    LitAttr("width", <<"4">>),
    Attr(<<"stroke", "width">>, "camel", "lit", <<"2">>),
    LitAttr("fill", <<"currentColor">>) >>

\* the elements of pool at the positions in P, in the pool's order
Pick(pool, P) ==
    LET idx == SelectSeq([i \in 1..Len(pool) |-> i], LAMBDA i : i \in P)
    IN  [j \in 1..Len(idx) |-> pool[idx[j]]]
Choices(pool, max) ==
    {Pick(pool, P) : P \in {Q \in SUBSET (1..Len(pool)) : Cardinality(Q) <= max}}

\* <tag rootAttrs><path childAttrs/></tag>
Element(tag, rootAttrs, childAttrs) ==
    <<Open(tag)>> \o rootAttrs \o <<Gt, Open("path")>> \o childAttrs \o <<Sc, Close(tag)>>

\* a fragment rooted at <svg>, <Svg> or <Icon>, or an <Icon> around an <svg>
Fragments ==
    {Element(tag, r, c) :
        tag \in {"svg", "Svg", "Icon"},
        r \in Choices(RootAttrPool, MaxRootAttrs),
        c \in Choices(ChildAttrPool, MaxChildAttrs)}
    \cup
    {<<Open("Icon")>> \o r \o <<Gt>> \o Element("svg", <<>>, c) \o <<Close("Icon")>> :
        r \in Choices(RootAttrPool, MaxRootAttrs),
        c \in Choices(ChildAttrPool, MaxChildAttrs)}

OptionSets ==
    [defaultFillColor : {<<>>, <<"#123456">>, <<"$&">>},
     width            : {<<>>, <<32>>},
     height           : {<<>>, <<32>>},
     viewBox          : {<<>>, << <<"0", "0", "32", "32">> >>}]

-----------------------------------------------------------------------------
(* The texts the scanner is run on: sequences of declarations *)

MaxDecls == 2

\* the root elements the declarations render
SvgFragment  == Element("svg", <<>>, <<>>)
SizeFragment == Element("svg", <<Attr(<<"width">>, "plain", "num", <<"24">>)>>, <<>>)
IconFragment ==
    Element("Icon", <<Attr(<<"view", "box">>, "camel", "lit", <<"0", "0", "16", "16">>)>>, <<>>)
WrapFragment == Element("Svg", <<LitAttr("fill", <<"currentColor">>)>>, <<>>)

\* the root element of a declaration: a function A and an arrow B render the
\* plain <svg>, a function B and an arrow A the one with a width
FragmentOf(kind, name) ==
    CASE kind \in {"function", "functionBare"} ->
            IF name = "A" THEN SvgFragment ELSE SizeFragment
      [] kind \in {"arrow", "arrowBare", "arrowReturn"} ->
            IF name = "A" THEN SizeFragment ELSE SvgFragment
      [] kind \in {"forwardRef", "forwardRefBare"} -> IconFragment
      [] kind \in {"memo", "memoBare"} -> WrapFragment
      [] OTHER -> <<>>

Words(ws) == [i \in 1..Len(ws) |-> IF ws[i] = "\n" THEN Nl ELSE Kw(ws[i])]

\* the words of a declaration named name before and after its root element.
\* The kinds with "Bare" in their name are the forms of the README (the root
\* element directly after `return` or `=>`), the others wrap the root element
\* in parentheses; "helper" and "constHelper" are exported declarations that
\* render no SVG.
DeclHead(kind, name) ==
    CASE kind = "function" ->
            <<"export", "function", name, "(", ")", "{", "\n", "return", "(", "\n">>
      [] kind = "functionBare" ->
            <<"export", "function", name, "(", ")", "{", "\n", "return">>
      [] kind = "helper" ->
            <<"export", "function", name, "(", ")", "{", "\n", "return", "1">>
      [] kind = "arrow" ->
            <<"export", "const", name, "=", "(", ")", "=>", "(", "\n">>
      [] kind = "arrowBare" ->
            <<"export", "const", name, "=", "(", ")", "=>">>
      [] kind = "arrowReturn" ->
            <<"export", "const", name, "=", "(", ")", "=>", "{", "\n", "return", "(">>
      [] kind = "constHelper" ->
            <<"export", "const", name, "=", "(", ")", "=>", "{", "\n", "return", "1">>
      [] kind \in {"forwardRef", "forwardRefBare"} ->
            <<"export", "const", name, "=", "forwardRef", "<T>", "(", "(", "props", ",", "ref",
              ")", "=>", "{", "\n", "return">> \o (IF kind = "forwardRef" THEN <<"(">> ELSE <<>>)
      [] kind \in {"memo", "memoBare"} ->
            <<"export", "const", name, "=", "memo", "(", "(", ")", "=>">>
            \o (IF kind = "memo" THEN <<"(">> ELSE <<>>)
DeclFoot(kind) ==
    CASE kind = "function"       -> <<"\n", ")", "\n", "}", "\n">>
      [] kind = "functionBare"   -> <<"\n", "}", "\n">>
      [] kind = "helper"         -> <<"\n", "}", "\n">>
      [] kind = "arrow"          -> <<"\n", ")", "\n">>
      [] kind = "arrowBare"      -> <<"\n">>
      [] kind = "arrowReturn"    -> <<")", "\n", "}", "\n">>
      [] kind = "constHelper"    -> <<"\n", "}", "\n">>
      [] kind = "forwardRef"     -> <<")", "\n", "}", ")", "\n">>
      [] kind = "forwardRefBare" -> <<"\n", "}", ")", "\n">>
      [] kind = "memo"           -> <<")", ")", "\n">>
      [] kind = "memoBare"       -> <<")", "\n">>
\* the kinds written on one line, without a newline after them either, and the
\* kinds they are the one-line form of
FlatKinds == {"functionFlat", "arrowFlat", "memoFlat"}
BaseOf(kind) ==
    CASE kind = "functionFlat" -> "function"
      [] kind = "arrowFlat"    -> "arrow"
      [] kind = "memoFlat"     -> "memo"
      [] OTHER -> kind
IsNoNewline(t) == t.k # "nl"
Broken(kind, name) ==
    Words(DeclHead(kind, name)) \o FragmentOf(kind, name) \o Words(DeclFoot(kind))
DeclTokens(kind, name) ==
    IF kind \in FlatKinds THEN SelectSeq(Broken(BaseOf(kind), name), IsNoNewline)
    ELSE Broken(kind, name)

ParenKinds  == {"function", "arrow", "arrowReturn", "forwardRef", "memo"}
BareKinds   == {"functionBare", "arrowBare", "forwardRefBare", "memoBare"}
HelperKinds == {"helper", "constHelper"}
IconNames   == {"A", "B"}

Decl(kind, name) == [kind |-> kind, name |-> name]
DeclPool ==
    {Decl(k, n) : k \in ParenKinds, n \in IconNames}
    \cup {Decl(k, "A") : k \in BareKinds}
    \cup {Decl(k, "h") : k \in HelperKinds}

TextOf(decls) ==
    LET upTo[k \in 0..Len(decls)] ==
            IF k = 0 THEN <<>>
            ELSE upTo[k - 1] \o DeclTokens(decls[k].kind, decls[k].name)
    IN  upTo[Len(decls)]

Sources == UNION {[1..n -> DeclPool] : n \in 0..MaxDecls}
\* texts with several declarations on a line
LinePool == {Decl(k, n) : k \in FlatKinds \cup {"function", "arrow"}, n \in IconNames}
LineSources == UNION {[1..n -> LinePool] : n \in 0..MaxDecls}
\* the fragments on which the try block throws
ThrowSets == {{}, {SvgFragment}}
ScanColor == <<"#123456">>

-----------------------------------------------------------------------------
(* The texts of repeated calls, and the raw files *)

MaxCalls == 3

\* a text of one declaration of every kind, and two of two
CallSources ==
    {<<d>> : d \in DeclPool}
    \cup {<<Decl("arrow", "B"), Decl("function", "B")>>,
          <<Decl("helper", "h"), Decl("function", "A")>>}

RawBodies == {
    <<>>,
    <<Open("svg"), LitAttr("width", <<"32">>), LitAttr("height", <<"32">>), Gt,
      Open("rect"), Sc, Close("svg")>>,
    <<Open("svg"), Attr(<<"view", "box">>, "camel", "lit", <<"0", "0", "24", "24">>), Gt,
      Open("path"), Attr(<<"stroke", "width">>, "kebab", "lit", <<"2">>), Sc, Close("svg")>>,
    <<Open("svg"), Gt, Open("rect"), Sc>>,
    <<Open("svg"), Gt, Close("svg"), Nl, Open("svg"), LitAttr("width", <<"16">>), Gt, Close("svg")>>,
    <<Open("SVG"), Gt, Close("SVG")>> }
RawLeads == {<<>>, <<Nl>>}
RawHeads == {<<>>, <<Prolog, Nl>>, <<Kw("text"), Nl>>}
RawTails == {<<>>, <<Nl>>, <<Nl, Kw("text")>>}
RawTexts == {l \o h \o b \o t : l \in RawLeads, h \in RawHeads, b \in RawBodies, t \in RawTails}

FileNames == {
    <<"arrow", "-", "icon", ".", "svg">>,
    <<"icon", ".", "SVG">>,
    <<"icon", ".", "xml">>,
    <<"icon", ".", "svg", ".", "bak">>,
    <<"my", " ", "icon", ".", "svg">>,
    <<"Icon">>,
    <<"svg">> }

-----------------------------------------------------------------------------
(* hoverProvider.ts, decorationProvider.ts and the activation code: the maps
   of the two modules and the handlers that read and write them. A handler
   takes the maps as a record h and returns the record it leaves:
     decorationTypes   the keys that hold an undisposed decoration type
     tempFilePaths     key -> the SVG written to the temp file of that path
     cachedComponents  document -> the list of the last update
     componentCache    document -> the list the hover provider uses
     timeout           the handle setTimeout returned last, if it was not reset
     pending           the timers that are set: handle and editor of each
     returned          the list the last call of update returned
     updated           the document of the call of updateDecorations that was
                       the last to touch the decorations, if any
   A key is <<document>> or <<document, component name>>. *)

\* a Map without entries, Map.has, Map.set and Map.delete
NoEntries == [k \in {} |-> <<>>]
Has(map, key) == key \in DOMAIN map
Set(map, key, value) ==
    [k \in DOMAIN map \cup {key} |-> IF k = key THEN value ELSE map[k]]
Delete(map, key) == [k \in DOMAIN map \ {key} |-> map[k]]

\* decorationProvider.ts lines 75-80
clearDecorations(h) == [h EXCEPT !.decorationTypes = {}, !.updated = <<>>]
\* hoverProvider.ts lines 169-171
clearComponentCache(h) == [h EXCEPT !.componentCache = NoEntries]
\* hoverProvider.ts lines 15-20
updateComponentCache(h, d, cs) == [h EXCEPT !.componentCache = Set(@, d, cs)]

\* decorationProvider.ts lines 106-117, hoverProvider.ts lines 33-41: the
\* documents of the model are module texts, none is raw SVG; defaultFillColor
\* is the same in all configurations
ScanDocument(docs, d) ==
    parseSvgComponents(TextOf(docs[d]), ScanColor, {}, NoLastIndex, {}).components

\* decorationProvider.ts lines 127-159: the loop over the components, from
\* the k-th on
RECURSIVE Decorate(_, _, _, _)
Decorate(h, d, cs, k) ==
    IF k > Len(cs) THEN h
    ELSE Decorate([h EXCEPT !.tempFilePaths = Set(@, <<d, cs[k].name>>, cs[k].svg),
                            !.decorationTypes = @ \cup {<<d, cs[k].name>>}],
                  d, cs, k + 1)
\* decorationProvider.ts lines 119-161, cs being the scan of the document
Decorated(h, d, cs) ==
    IF cs = <<>> THEN [h EXCEPT !.returned = cs, !.updated = <<d>>]
    ELSE [Decorate(h, d, cs, 1) EXCEPT !.returned = cs, !.updated = <<d>>]
\* decorationProvider.ts lines 85-162
updateDecorations(h, d, cfg, docs) ==
    IF ~cfg.enabled \/ ~cfg.showInlineIcon
    THEN [h EXCEPT !.decorationTypes = @ \ {<<d>>}, !.returned = <<>>, !.updated = <<d>>]
    ELSE Decorated([h EXCEPT !.decorationTypes = @ \ {<<d>>}], d, ScanDocument(docs, d))

\* decorationProvider.ts line 187
Remembered(h, d) == [h EXCEPT !.cachedComponents = Set(@, d, h.returned)]
\* decorationProvider.ts lines 184-189
update(h, d, cfg, docs) == Remembered(updateDecorations(h, d, cfg, docs), d)
\* clearTimeout(handle): the timer of that handle, if it is still set, is gone
clearTimeout(timers, handle) == {t \in timers : t.id # handle}
\* decorationProvider.ts lines 192-195
Cancelled(h) ==
    IF h.timeout # <<>>
    THEN [h EXCEPT !.pending = clearTimeout(@, h.timeout[1]), !.timeout = <<>>]
    ELSE h
\* lines 197-201 on its own: the earlier timer is not cleared
Scheduled(h, d, throttle, id, cfg, docs) ==
    IF throttle
    THEN [h EXCEPT !.timeout = <<id>>, !.pending = @ \cup {[id |-> id, doc |-> d]}]
    ELSE update(h, d, cfg, docs)
triggerUpdate_NoClear(h, d, throttle, id, cfg, docs) == Scheduled(h, d, throttle, id, cfg, docs)
\* decorationProvider.ts lines 191-202; id is the handle setTimeout returns
triggerUpdate(h, d, throttle, id, cfg, docs) ==
    Scheduled(Cancelled(h), d, throttle, id, cfg, docs)

\* updateComponentCache(document, components) with the list update returned
CacheReturned(h, d) == updateComponentCache(h, d, h.returned)

\* createDecorationProvider lines 227-233, then activate lines 352-359; editor
\* is the active editor, if any
activate(h, editor, cfg, docs) ==
    IF editor = <<>> THEN h
    ELSE CacheReturned(update(triggerUpdate(h, editor[1], FALSE, 0, cfg, docs),
                              editor[1], cfg, docs),
                       editor[1])

\* lines 334-348: the configuration listener ([] is truthy: the list is stored
\* in the hover cache also when update returned it empty)
configChange(h, editor, cfg, docs) ==
    IF editor = <<>> THEN clearComponentCache(clearDecorations(h))
    ELSE CacheReturned(update(clearComponentCache(clearDecorations(h)), editor[1], cfg, docs),
                       editor[1])
\* lines 315-331: the refresh command
refresh(h, editor, cfg, docs) ==
    IF editor = <<>> THEN clearComponentCache(clearDecorations(h))
    ELSE CacheReturned(update(clearComponentCache(clearDecorations(h)), editor[1], cfg, docs),
                       editor[1])
\* lines 299-310: the toggle command after config.update, was being the value
\* of `enabled` before it
toggled(h, editor, cfg, docs, was) ==
    IF ~was
    THEN IF editor = <<>> THEN h ELSE update(h, editor[1], cfg, docs)
    ELSE clearComponentCache(clearDecorations(h))
\* lines 292-312: config.update makes the configuration listener run; the
\* listener runs before the rest of the command, or after it
toggle(h, editor, cfg, docs, was, listenerFirst) ==
    IF listenerFirst
    THEN toggled(configChange(h, editor, cfg, docs), editor, cfg, docs, was)
    ELSE configChange(toggled(h, editor, cfg, docs, was), editor, cfg, docs)

\* hoverProvider.ts lines 152-154 and decorationProvider.ts lines 214-225: the
\* two listeners of a change of the text of document d
changeText(h, d, editor, id, cfg, docs) ==
    IF editor = <<d>>
    THEN triggerUpdate([h EXCEPT !.componentCache = Delete(@, d)], d, TRUE, id, cfg, docs)
    ELSE [h EXCEPT !.componentCache = Delete(@, d)]
\* hoverProvider.ts lines 157-159
closeDocument(h, d) == [h EXCEPT !.componentCache = Delete(@, d)]
\* decorationProvider.ts line 198: the callback of the timer t runs; the
\* variable timeout keeps the handle
timerFires(h, t, cfg, docs) == update([h EXCEPT !.pending = @ \ {t}], t.doc, cfg, docs)
\* decorationProvider.ts lines 205-211
changeActiveEditor(h, editor, cfg, docs) ==
    IF editor = <<>> THEN h ELSE triggerUpdate(h, editor[1], FALSE, 0, cfg, docs)
\* decorationProvider.ts lines 239-244: the variable timeout keeps the handle
dispose(h) ==
    IF h.timeout # <<>>
    THEN [clearDecorations(h) EXCEPT !.pending = clearTimeout(@, h.timeout[1])]
    ELSE clearDecorations(h)
\* lines 365-370
deactivate(h) == clearComponentCache(clearDecorations(dispose(h)))

\* hoverProvider.ts lines 25-46: the maps after the call; the list returned is
\* the entry of the document
getComponents(h, d, docs) ==
    IF Has(h.componentCache, d) THEN h
    ELSE updateComponentCache(h, d, ScanDocument(docs, d))
\* a lookup that returns the last of the components whose span holds the line
findLastAtLine(cs, l) ==
    LET S == {j \in 1..Len(cs) : l >= cs[j].startLine /\ l <= cs[j].endLine}
    IN  IF S = {} THEN <<>> ELSE <<cs[Max(S)]>>
\* svgParser.ts lines 152-157: Array.prototype.find, zero or one component
findComponentAtLine(cs, l) ==
    LET S == {j \in 1..Len(cs) : l >= cs[j].startLine /\ l <= cs[j].endLine}
    IN  IF S = {} THEN <<>> ELSE <<cs[Min(S)]>>
\* svgParser.ts lines 162-167
isComponentDeclarationLine(cs, l) ==
    LET S == {j \in 1..Len(cs) : cs[j].startLine = l}
    IN  IF S = {} THEN <<>> ELSE <<cs[Min(S)]>>

\* what provideHover returns: nothing yet ("none"), null, a hover with the
\* name and the words "Preview not available" ("text"), or a hover with the
\* name and the image of a temp file ("image")
NoHover == [doc |-> "", line |-> 0, kind |-> "none", name |-> <<>>, image |-> <<>>]
\* hoverProvider.ts lines 85-146, found being what findComponentAtLine returned
HoverFor(h, d, line, found) ==
    IF found = <<>>
        THEN [doc |-> d, line |-> line, kind |-> "null", name |-> <<>>, image |-> <<>>]
    ELSE IF Has(h.tempFilePaths, <<d, found[1].name>>)
        THEN [doc |-> d, line |-> line, kind |-> "image", name |-> <<found[1].name>>,
              image |-> <<h.tempFilePaths[<<d, found[1].name>>]>>]
    ELSE [doc |-> d, line |-> line, kind |-> "text", name |-> <<found[1].name>>, image |-> <<>>]
\* hoverProvider.ts lines 64-147, h being the maps getComponents left
provideHover(h, d, line, cfg) ==
    IF ~cfg.enabled \/ ~cfg.showHoverPreview
    THEN [doc |-> d, line |-> line, kind |-> "null", name |-> <<>>, image |-> <<>>]
    ELSE HoverFor(h, d, line, findComponentAtLine(h.componentCache[d], line))

\* the extension before activation
IdleExt ==
    /\ config = [enabled |-> TRUE, showInlineIcon |-> TRUE, showHoverPreview |-> TRUE]
    /\ activated = "no"
    /\ documents = <<>>
    /\ activeTextEditor = <<>>
    /\ componentCache = NoEntries
    /\ cachedComponents = NoEntries
    /\ decorationTypes = {}
    /\ tempFilePaths = NoEntries
    /\ timeout = <<>>
    /\ pending = {}
    /\ hover = NoHover
    /\ lastUpdate = <<>>
    /\ edits = 0

-----------------------------------------------------------------------------
(* The normalizer run once and then again on its own output *)

InitNorm ==
    /\ jsxString \in Fragments
    /\ options \in OptionSets
    /\ svgOut = <<>>
    /\ svgPrev = <<>>
    /\ pass = 0
    /\ IdleScan /\ IdleCalls /\ IdleRaw /\ IdleExt /\ IdleLookup

\* jsxToSvg(jsxString, options)
Normalize ==
    /\ pass = 0
    /\ svgOut' = jsxToSvg(jsxString, options)
    /\ pass' = 1
    /\ UNCHANGED <<jsxString, options, svgPrev, scanVars, callVars, rawVars, extVars, lineVars>>

\* jsxToSvg(jsxToSvg(jsxString, options), options)
Renormalize ==
    /\ pass = 1
    /\ svgPrev' = svgOut
    /\ svgOut' = jsxToSvg(svgOut, options)
    /\ pass' = 2
    /\ UNCHANGED <<jsxString, options, scanVars, callVars, rawVars, extVars, lineVars>>

NextNorm == Normalize \/ Renormalize

SpecNorm == InitNorm /\ [][NextNorm]_vars

-----------------------------------------------------------------------------
(* The scanner run on a text *)

InitScan ==
    /\ source \in Sources
    /\ throwing \in ThrowSets
    /\ components = <<>>
    /\ lastIndex = NoLastIndex
    /\ seenNames = {}
    /\ calls = 0
    /\ IdleNorm /\ IdleCalls /\ IdleRaw /\ IdleExt /\ IdleLookup

\* what a call returns and leaves behind
ScanResult(r) ==
    /\ components' = r.components
    /\ lastIndex' = r.lastIndex
    /\ seenNames' = r.seenNames

\* parseSvgComponents(text, {defaultFillColor})
Scan ==
    /\ calls = 0
    /\ ScanResult(parseSvgComponents(TextOf(source), ScanColor, throwing, lastIndex, seenNames))
    /\ calls' = 1
    /\ UNCHANGED <<source, throwing, normVars, callVars, rawVars, extVars, lineVars>>

NextScan == Scan

SpecScan == InitScan /\ [][NextScan]_vars

\* the scanner run on texts with several declarations on a line
InitLines ==
    /\ source \in LineSources
    /\ throwing \in ThrowSets
    /\ components = <<>>
    /\ lastIndex = NoLastIndex
    /\ seenNames = {}
    /\ calls = 0
    /\ IdleNorm /\ IdleCalls /\ IdleRaw /\ IdleExt /\ IdleLookup

SpecLines == InitLines /\ [][NextScan]_vars

\* the scanner run on one function declaration that renders a given fragment
DeclAround(jsx) ==
    Words(DeclHead("function", "A")) \o jsx \o Words(DeclFoot("function"))

InitAttrs ==
    /\ jsxString \in Fragments
    /\ options = [defaultFillColor |-> ScanColor, width |-> <<>>, height |-> <<>>,
                  viewBox |-> <<>>]
    /\ svgOut = <<>>
    /\ svgPrev = <<>>
    /\ pass = 0
    /\ IdleScan /\ IdleCalls /\ IdleRaw /\ IdleExt /\ IdleLookup

\* parseSvgComponents(text, {defaultFillColor}) on the declaration
ScanFragment ==
    /\ calls = 0
    /\ ScanResult(parseSvgComponents(DeclAround(jsxString), options.defaultFillColor,
                                  {}, lastIndex, seenNames))
    /\ calls' = 1
    /\ UNCHANGED <<source, throwing, normVars, callVars, rawVars, extVars, lineVars>>

NextAttrs == ScanFragment

SpecAttrs == InitAttrs /\ [][NextAttrs]_vars

\* a line of the text, or the one after its last, is looked up in the list
\* the scanner returned
LookUp ==
    /\ calls = 1
    /\ \E l \in 0..(NewlinesIn(TextOf(source)) + 1) :
           /\ atLine' = l
           /\ foundAtLine' = findComponentAtLine(components, l)
           /\ declaredAtLine' = isComponentDeclarationLine(components, l)
    /\ UNCHANGED <<normVars, scanVars, callVars, rawVars, extVars>>

NextLookup == Scan \/ LookUp

SpecLookup == InitLines /\ [][NextLookup]_vars

-----------------------------------------------------------------------------
(* The scanner called again and again: the text of the first call, other texts,
   the first text once more *)

InitCalls ==
    /\ source \in CallSources
    /\ throwing \in ThrowSets
    /\ components = <<>>
    /\ lastIndex = NoLastIndex
    /\ seenNames = {}
    /\ calls = 0
    /\ reference = <<>>
    /\ history = <<>>
    /\ IdleNorm /\ IdleRaw /\ IdleExt /\ IdleLookup

\* what a call leaves behind
LeftBehind(r) ==
    /\ lastIndex' = r.lastIndex
    /\ seenNames' = r.seenNames

\* the first call on the text
FirstCall ==
    /\ calls = 0
    /\ ScanResult(parseSvgComponents(TextOf(source), ScanColor, throwing, lastIndex, seenNames))
    /\ reference' = components'
    /\ calls' = 1
    /\ history' = <<"first">>
    /\ UNCHANGED <<source, throwing, normVars, rawVars, extVars, lineVars>>

\* a call on another text
OtherCall ==
    /\ calls \in 1..(MaxCalls - 1)
    /\ \E other \in CallSources \ {source} :
           LeftBehind(parseSvgComponents(TextOf(other), ScanColor, throwing, lastIndex, seenNames))
    /\ calls' = calls + 1
    /\ history' = Append(history, "other")
    /\ UNCHANGED <<source, throwing, components, reference, normVars, rawVars, extVars, lineVars>>

\* one more call on the text of the first call
RepeatCall ==
    /\ calls \in 1..(MaxCalls - 1)
    /\ ScanResult(parseSvgComponents(TextOf(source), ScanColor, throwing, lastIndex, seenNames))
    /\ calls' = calls + 1
    /\ history' = Append(history, "again")
    /\ UNCHANGED <<source, throwing, reference, normVars, rawVars, extVars, lineVars>>

NextCalls == FirstCall \/ OtherCall \/ RepeatCall

SpecCalls == InitCalls /\ [][NextCalls]_vars

-----------------------------------------------------------------------------
(* parseRawSvgFile called on a text and a file name *)

InitRaw ==
    /\ text \in RawTexts
    /\ fileName \in FileNames
    /\ components = <<>>
    /\ calls = 0
    /\ source = <<>>
    /\ throwing = {}
    /\ lastIndex = NoLastIndex
    /\ seenNames = {}
    /\ IdleNorm /\ IdleCalls /\ IdleExt /\ IdleLookup

\* parseRawSvgFile(text, fileName)
ParseRaw ==
    /\ calls = 0
    /\ components' = parseRawSvgFile(text, fileName)
    /\ calls' = 1
    /\ UNCHANGED <<source, throwing, lastIndex, seenNames, normVars, callVars, rawVars, extVars, lineVars>>

NextRaw == ParseRaw

SpecRaw == InitRaw /\ [][NextRaw]_vars

-----------------------------------------------------------------------------
(* The extension in the editor: activation, the commands, the listeners, the
   timer and the hover provider, on one document that is edited *)

MaxEdits == 2

Docs == {"a.tsx"}
\* the texts a document holds, one after the other
DocSources == {
    <<Decl("function", "A")>>,
    <<Decl("arrow", "B"), Decl("function", "A")>> }
Settings == [enabled : BOOLEAN, showInlineIcon : BOOLEAN, showHoverPreview : BOOLEAN]
SettingNames == {"enabled", "showInlineIcon", "showHoverPreview"}
Editors == {<<>>} \cup {<<d>> : d \in Docs}

Init ==
    /\ config \in Settings
    /\ activated = "no"
    /\ documents \in [Docs -> DocSources]
    /\ activeTextEditor \in Editors
    /\ componentCache = NoEntries
    /\ cachedComponents = NoEntries
    /\ decorationTypes = {}
    /\ tempFilePaths = NoEntries
    /\ timeout = <<>>
    /\ pending = {}
    /\ hover = NoHover
    /\ lastUpdate = <<>>
    /\ edits = 0
    /\ IdleNorm /\ IdleScan /\ IdleCalls /\ IdleRaw /\ IdleLookup

\* the maps of the two modules
Maps ==
    [decorationTypes |-> decorationTypes, tempFilePaths |-> tempFilePaths,
     cachedComponents |-> cachedComponents, componentCache |-> componentCache,
     timeout |-> timeout, pending |-> pending, returned |-> <<>>, updated |-> <<>>]
\* the maps a handler leaves
Leaves(h) ==
    /\ decorationTypes' = h.decorationTypes
    /\ tempFilePaths' = h.tempFilePaths
    /\ cachedComponents' = h.cachedComponents
    /\ componentCache' = h.componentCache
    /\ timeout' = h.timeout
    /\ pending' = h.pending
    /\ lastUpdate' = IF h.updated = <<>> THEN <<>>
                     ELSE <<[doc |-> h.updated[1], returned |-> h.returned]>>

notExt == <<normVars, scanVars, callVars, rawVars, lineVars>>

Activate ==
    /\ activated = "no"
    /\ activated' = "yes"
    /\ \E h \in {activate(Maps, activeTextEditor, config, documents)} : Leaves(h)
    /\ hover' = NoHover
    /\ UNCHANGED <<config, documents, activeTextEditor, edits, notExt>>

\* a setting is changed in the settings of the editor
ChangeConfiguration ==
    /\ activated = "yes"
    /\ \E k \in SettingNames : config' = [config EXCEPT ![k] = ~@]
    /\ \E h \in {configChange(Maps, activeTextEditor, config', documents)} : Leaves(h)
    /\ hover' = NoHover
    /\ UNCHANGED <<activated, documents, activeTextEditor, edits, notExt>>

Toggle ==
    /\ activated = "yes"
    /\ config' = [config EXCEPT !.enabled = ~@]
    /\ \E h \in {toggle(Maps, activeTextEditor, config', documents, config.enabled, first) :
                      first \in BOOLEAN} : Leaves(h)
    /\ hover' = NoHover
    /\ UNCHANGED <<activated, documents, activeTextEditor, edits, notExt>>

Refresh ==
    /\ activated = "yes"
    /\ \E h \in {refresh(Maps, activeTextEditor, config, documents)} : Leaves(h)
    /\ hover' = NoHover
    /\ UNCHANGED <<config, activated, documents, activeTextEditor, edits, notExt>>

ChangeText ==
    /\ activated = "yes"
    /\ edits < MaxEdits
    /\ \E d \in Docs : \E new \in DocSources \ {documents[d]} :
           /\ documents' = [documents EXCEPT ![d] = new]
           /\ \E h \in {changeText(Maps, d, activeTextEditor, edits + 1, config, documents')} :
                  Leaves(h)
    /\ edits' = edits + 1
    /\ hover' = NoHover
    /\ UNCHANGED <<config, activated, activeTextEditor, notExt>>

\* a document that no editor shows is closed (and may be opened again)
CloseDocument ==
    /\ activated = "yes"
    /\ \E d \in Docs : activeTextEditor # <<d>> /\ \E h \in {closeDocument(Maps, d)} : Leaves(h)
    /\ hover' = NoHover
    /\ UNCHANGED <<config, activated, documents, activeTextEditor, edits, notExt>>

\* 500 ms after it was set, a timer that was not cleared runs its callback
TimerFires ==
    /\ \E t \in pending : \E h \in {timerFires(Maps, t, config, documents)} : Leaves(h)
    /\ hover' = NoHover
    /\ UNCHANGED <<config, activated, documents, activeTextEditor, edits, notExt>>

ChangeActiveEditor ==
    /\ activated = "yes"
    /\ \E editor \in Editors \ {activeTextEditor} :
           /\ activeTextEditor' = editor
           /\ \E h \in {changeActiveEditor(Maps, editor, config, documents)} : Leaves(h)
    /\ hover' = NoHover
    /\ UNCHANGED <<config, activated, documents, edits, notExt>>

\* the hover that follows getComponents
Hovered(h, d, line) == Leaves(h) /\ hover' = provideHover(h, d, line, config)
\* the pointer rests on a line of a document
Hover ==
    /\ activated = "yes"
    /\ \E d \in Docs : \E line \in 0..Newlines(TextOf(documents[d]), 1, Len(TextOf(documents[d]))) :
           \E h \in {IF config.enabled /\ config.showHoverPreview
                       THEN getComponents(Maps, d, documents) ELSE Maps} :
               Hovered(h, d, line)
    /\ UNCHANGED <<config, activated, documents, activeTextEditor, edits, notExt>>

Deactivate ==
    /\ activated = "yes"
    /\ activated' = "off"
    /\ \E h \in {deactivate(Maps)} : Leaves(h)
    /\ hover' = NoHover
    /\ UNCHANGED <<config, documents, activeTextEditor, edits, notExt>>

Next ==
    \/ Activate
    \/ ChangeConfiguration
    \/ Toggle
    \/ Refresh
    \/ ChangeText
    \/ CloseDocument
    \/ TimerFires
    \/ ChangeActiveEditor
    \/ Hover
    \/ Deactivate

Spec == Init /\ [][Next]_vars

\* setTimeout: a timer leaves the set of the timers that are set, either
\* cleared or, 500 ms after it was set, with its callback run (TimerFires)
Expires == \E t \in pending : pending' = pending \ {t}
\* no timer stays set for ever
SpecLive == Init /\ [][Next]_vars /\ WF_pending(Expires)

-----------------------------------------------------------------------------
(* Claims about the normalizer *)

\* the attribute tokens of the opening tag that starts the string
RootAttrs(str) ==
    IF str = <<>> THEN {}
    ELSE {str[j] : j \in 2..(TagEndAfter(str, 1) - 1)}
RootHas(str, t) == \E a \in RootAttrs(str) : a.k = "attr" /\ a.n = t.n /\ a.s = t.s
RootComplete(str) ==
    /\ str # <<>>
    /\ str[1] = Open("svg")
    /\ RootHas(str, LitAttr("xmlns", <<>>))
    /\ RootHas(str, LitAttr("width", <<>>))
    /\ RootHas(str, LitAttr("height", <<>>))
    /\ RootHas(str, Attr(<<"view", "box">>, "camel", "lit", <<>>))

\* C1: the string returned by jsxToSvg has xmlns, width, height and viewBox
\* on the opening tag of its root <svg>, for every fragment and all hints.
C1_RootHasAllFour == pass >= 1 => RootComplete(svgOut)

\* C2: the normalizer is idempotent: normalizing its own output under the
\* same options returns that output unchanged.
C2_Idempotent == pass = 2 => svgOut = svgPrev

\* the colour jsxToSvg paints with under the options
ColorOf(opts) == OptOr(opts.defaultFillColor, "#888888")
HasCurrentColor(str) == \E i \in 1..Len(str) : \E j \in 1..Len(str[i].v) : str[i].v[j] = "currentColor"
\* fill="currentColor" on an element below the root, which no step removes
IsChildFill(str, i) ==
    /\ i > TagEndAfter(str, 1)
    /\ str[i] = LitAttr("fill", <<"currentColor">>)
HasFill(str, color) == \E i \in 1..Len(str) : str[i] = LitAttr("fill", <<color>>)

\* C12: for every fragment and every colour that is not itself `currentColor`
\* the output of jsxToSvg holds no `currentColor`, and a fill="currentColor"
\* that is kept has become fill="<the colour>" (#888888 without a colour).
C12_NoCurrentColor ==
    (pass >= 1 /\ ColorOf(options) # "currentColor") =>
        /\ ~HasCurrentColor(svgOut)
        /\ (\E i \in 1..Len(jsxString) : IsChildFill(jsxString, i))
               => HasFill(svgOut, ColorOf(options))

\* an attribute whose value is a `{...}` expression
IsBraced(t) == t.k = "attr" /\ t.f \in BraceForms

\* C13: the output of jsxToSvg holds no attribute whose value is still a
\* `{...}` expression, whatever the name of the attribute is (a camelCase
\* name that was renamed to a hyphenated one included).
C13_NoExpressionLeft ==
    pass >= 1 => \A i \in 1..Len(svgOut) : ~IsBraced(svgOut[i])

\* the viewBox written on the opening tag of the root of str, if any
RootViewBox(str) ==
    LET S == {j \in 2..(TagEndAfter(str, 1) - 1) : IsViewBoxCamel(str[j]) /\ str[j].f = "lit"}
    IN  IF str = <<>> \/ S = {} THEN <<>> ELSE <<str[Min(S)].v>>

\* C15: the viewBox on the root of the output is the viewBox the root of the
\* fragment carries when it carries one; otherwise it is the viewBox hint of
\* the options when there is one; only without both is it derived from the
\* size hints or the path coordinates.
C15_ViewBoxPrecedence ==
    pass = 1 =>
        IF RootViewBox(jsxString) # <<>> THEN RootViewBox(svgOut) = RootViewBox(jsxString)
        ELSE IF options.viewBox # <<>> THEN RootViewBox(svgOut) = options.viewBox
        ELSE RootViewBox(svgOut) # <<>>

-----------------------------------------------------------------------------
(* Claims about the scanner *)

\* the text the scanner was run on and its lines
Scanned == TextOf(source)
\* the lines of the first and of the last token of the k-th declaration (every
\* declaration ends with the newline after its last token)
DeclStart(k) == NewlinesIn(TextOf(SubSeq(source, 1, k - 1)))
DeclEnd(k)   == NewlinesIn(TextOf(SubSeq(source, 1, k))) - 1

\* the starts of the matches a pattern finds in turn, exec after exec
RECURSIVE StartsFrom(_, _)
StartsAt(matches, i) ==
    IF i = 0 THEN <<>> ELSE <<i>> \o StartsFrom(matches, matches[i].e)
StartsFrom(matches, from) == StartsAt(matches, Exec(matches, from))
\* the candidates of a text: the matches of the patterns in the order the
\* scanner meets them, each with its start, name and fragment
CandidateAt(txt, matches, i) ==
    [start |-> i, end |-> matches[i].e, name |-> txt[matches[i].n].v[1],
     jsx |-> SubSeq(txt, matches[i].a, matches[i].b)]
CandidatesAt(txt, matches, starts) ==
    [j \in 1..Len(starts) |-> CandidateAt(txt, matches, starts[j])]
CandidatesOf(txt, matches) == CandidatesAt(txt, matches, StartsFrom(matches, 0))
RECURSIVE Candidates(_, _)
Candidates(k, txt) ==
    IF k > Len(PatternNames) THEN <<>>
    ELSE CandidatesOf(txt, Matches(PatternNames[k], txt)) \o Candidates(k + 1, txt)
\* the candidates on which the try block does not throw
Succeeds(x) == x.jsx \notin throwing
Usable(txt) == SelectSeq(Candidates(1, txt), Succeeds)
\* the first of the candidates xs that has the name
FirstNamed(xs, name) == xs[Min({j \in 1..Len(xs) : xs[j].name = name})]
\* component c is what the scanner records for candidate x of txt
RecordOf(c, x, txt) ==
    /\ c.name = x.name
    /\ c.rawJsx = x.jsx
    /\ c.startLine = getLineNumber(txt, x.start)
    /\ c.endLine = getEndLineNumber(txt, x.start, x.end)
NamesIn(xs) == {xs[j].name : j \in 1..Len(xs)}
KeepsFirst(cs, xs, txt) ==
    /\ \A i, j \in 1..Len(cs) : i # j => cs[i].name # cs[j].name
    /\ \A j \in 1..Len(cs) :
           /\ cs[j].name \in NamesIn(xs)
           /\ RecordOf(cs[j], FirstNamed(xs, cs[j].name), txt)

\* C3: in the list returned no two components have the same name, and the
\* component of a name is the record of the first candidate of that name (in
\* pattern order, then match order) on which normalization did not fail.
C3_FirstMatchWins == calls = 1 => KeepsFirst(components, Usable(Scanned), Scanned)
\* an arrow B before a function B: the later declaration, found by the earlier
\* pattern, is the one kept
C3_Witness ==
    /\ calls = 1
    /\ throwing = {}
    /\ source = <<Decl("arrow", "B"), Decl("function", "B")>>
    /\ Len(components) = 1
    /\ components[1].startLine = 3

\* the place of a component in the order of discovery: that of the first
\* usable candidate of its name
Discovery(c, xs) == Min({j \in 1..Len(xs) : xs[j].name = c.name})
InLineOrder(cs, xs) ==
    \A i, j \in 1..Len(cs) :
        i < j => \/ cs[i].startLine < cs[j].startLine
                 \/ /\ cs[i].startLine = cs[j].startLine
                    /\ Discovery(cs[i], xs) < Discovery(cs[j], xs)

\* C11: the list returned is in non-decreasing order of startLine, and two
\* components of the same startLine are in the order of their discovery
\* (pattern order, then match order).
C11_SortedStable == calls = 1 => InLineOrder(components, Usable(Scanned))
\* a memo B and then an arrow A on the same line: A is discovered first and
\* stays first although B is written first
C11_Witness ==
    /\ calls = 1
    /\ throwing = {}
    /\ source = <<Decl("memoFlat", "B"), Decl("arrowFlat", "A")>>
    /\ Len(components) = 2
    /\ components[1].name = "A" /\ components[2].name = "B"
    /\ components[1].startLine = components[2].startLine
\* the value of the attribute `word` on the opening tag of the root of jsx,
\* written as a quoted literal or as a numeric expression
RootValue(jsx, word) ==
    LET S == {j \in 2..(TagEndAfter(jsx, 1) - 1) :
                 /\ jsx[j].k = "attr" /\ jsx[j].n = word
                 /\ jsx[j].s \in {"plain", "camel"}
                 /\ jsx[j].f \in {"lit", "num"}}
    IN  IF S = {} THEN <<>> ELSE <<jsx[Min(S)].v>>
RootNumber(jsx, word) ==
    IF RootValue(jsx, <<word>>) = <<>> THEN <<>>
    ELSE <<ParseNumber(RootValue(jsx, <<word>>)[1][1])>>
HasRootFields(c) ==
    /\ c.viewBox = RootValue(c.rawJsx, <<"view", "box">>)
    /\ c.width = RootNumber(c.rawJsx, "width")
    /\ c.height = RootNumber(c.rawJsx, "height")

\* C14: the fields viewBox, width and height of every component are those of
\* the opening tag of the root of its fragment, whether written as a quoted
\* literal or as a numeric expression; a field is absent when the root has no
\* such attribute, whatever the child elements carry.
C14_FieldsOfRoot ==
    calls = 1 => \A j \in 1..Len(components) : HasRootFields(components[j])

\* the places in cs of the components whose span holds line l, and of those
\* that start on it
Holding(cs, l) == {j \in 1..Len(cs) : cs[j].startLine <= l /\ l <= cs[j].endLine}
Starting(cs, l) == {j \in 1..Len(cs) : cs[j].startLine = l}
IsFirstOf(r, cs, S) ==
    IF S = {} THEN r = <<>>
    ELSE \E j \in S : r = <<cs[j]>> /\ \A i \in S : j <= i

\* C17 as stated: at most one span of the list holds the line, and
\* findComponentAtLine returns the component of that span, or nothing when
\* there is none; isComponentDeclarationLine returns a component exactly when
\* one starts on the line.
C17_AtMostOneSpan ==
    atLine >= 0 =>
        /\ Cardinality(Holding(components, atLine)) <= 1
        /\ IsFirstOf(foundAtLine, components, Holding(components, atLine))
        /\ (declaredAtLine # <<>>) <=> (Starting(components, atLine) # {})
\* C17 amended: the spans of a list may overlap; findComponentAtLine returns
\* the first component of the list whose span holds the line, and nothing
\* when none does; isComponentDeclarationLine returns the first component of
\* the list that starts on the line, and nothing when none does.
C17_FirstSpanInList ==
    atLine >= 0 =>
        /\ IsFirstOf(foundAtLine, components, Holding(components, atLine))
        /\ IsFirstOf(declaredAtLine, components, Starting(components, atLine))
\* an arrow A and a memo B on line 0, which is looked up: both spans hold it
\* and A, the first of the list, is returned
C17_Witness ==
    /\ atLine = 0
    /\ source = <<Decl("arrowFlat", "A"), Decl("memoFlat", "B")>>
    /\ Cardinality(Holding(components, atLine)) = 2
    /\ foundAtLine = <<components[1]>>
    /\ declaredAtLine = <<components[1]>>

\* the kinds of declaration that render an icon
IconKinds == ParenKinds \cup BareKinds

\* C4: a text that consists of one declaration in one of the four forms of the
\* README (no parentheses around the root element) yields exactly one
\* component, named after the declaration.
C4_ReadmeFormsRecognised ==
    (calls = 1 /\ throwing = {} /\ Len(source) = 1 /\ source[1].kind \in BareKinds)
        => (Len(components) = 1 /\ components[1].name = source[1].name)

\* C5: every component is named after an icon declaration of the text whose
\* own root element is the captured fragment - never after a declaration that
\* renders no SVG.
C5_NameOfOwnDeclaration ==
    calls = 1 =>
        \A j \in 1..Len(components) : \E k \in 1..Len(source) :
            /\ source[k].kind \in IconKinds
            /\ source[k].name = components[j].name
            /\ components[j].rawJsx = FragmentOf(source[k].kind, source[k].name)

\* C6: the span of every component is that of its declaration: startLine is
\* the line of the declaration's first token, endLine the line of its last
\* token, and 0 <= startLine <= endLine <= number of lines - 1.
C6_SpanIsDeclaration ==
    calls = 1 =>
        \A j \in 1..Len(components) :
            /\ \E k \in 1..Len(source) :
                   /\ source[k].name = components[j].name
                   /\ components[j].startLine = DeclStart(k)
                   /\ components[j].endLine = DeclEnd(k)
            /\ 0 <= components[j].startLine
            /\ components[j].startLine <= components[j].endLine
            /\ components[j].endLine <= NewlinesIn(Scanned)

\* C9: when normalization fails for candidates, the call still returns: no
\* failed candidate is in the list, and every name that has a candidate on
\* which normalization succeeds is recorded - a failure neither marks the name
\* as seen nor ends the scan - and these are the names the call has seen.
C9_FailureSkipsOne ==
    calls = 1 =>
        /\ \A j \in 1..Len(components) : components[j].rawJsx \notin throwing
        /\ NamesIn(components) = NamesIn(Usable(Scanned))
        /\ seenNames = NamesIn(components)
\* normalization fails for function A; the memo A after it is recorded
C9_Witness ==
    /\ calls = 1
    /\ throwing = {SvgFragment}
    /\ source = <<Decl("function", "A"), Decl("memo", "A")>>
    /\ Len(components) = 1
    /\ components[1].name = "A"
    /\ components[1].rawJsx = WrapFragment

-----------------------------------------------------------------------------
(* Claims about repeated calls and raw files *)

\* C10: a call on the text of the first call returns the list the first call
\* returned, whatever calls on other texts were made in between and whatever
\* they left in the regexes.
C10_SameTextSameList == calls >= 1 => components = reference
\* a first call, a call on another text, the first text again - with a
\* candidate on which normalization fails, and a list that is not empty
C10_Witness ==
    /\ history = <<"first", "other", "again">>
    /\ throwing # {}
    /\ components # <<>>

\* the text begins, after trimming, with `<svg` or `<?xml`
BeginsRaw ==
    \E i \in 1..Len(text) :
        /\ \A j \in 1..(i - 1) : text[j].k = "nl"
        /\ text[i] = Open("svg") \/ text[i].k = "prolog"
\* a..b is the span from the first `<svg` to the last `</svg>` of the text
\* (in either case of the letters)
IsSpan(a, b) ==
    /\ a < b
    /\ IsOpenCI(text[a], {"svg"})
    /\ IsCloseCI(text[b], {"svg"})
    /\ \A i \in 1..Len(text) : IsOpenCI(text[i], {"svg"}) => a <= i
    /\ \A i \in 1..Len(text) : IsCloseCI(text[i], {"svg"}) => i <= b
HasSpan == \E a, b \in 1..Len(text) : IsSpan(a, b)
\* the file name ends in .svg, in either case of the letters
EndsInSvg ==
    /\ Len(fileName) >= 2
    /\ fileName[Len(fileName) - 1] = "."
    /\ fileName[Len(fileName)] \in {"svg", "SVG"}
\* name is the sequence given, every part that is no word replaced by `_`
IsUnderscored(name, given) ==
    /\ Len(name) = Len(given)
    /\ \A i \in 1..Len(given) : name[i] = (IF given[i] \in OtherChars THEN "_" ELSE given[i])
\* what the claim says of the component, but for its name
RawComponentIs(c) ==
    /\ c.startLine = 0
    /\ c.endLine = NewlinesIn(text)
    /\ \E a, b \in 1..Len(text) : IsSpan(a, b) /\ c.svg = SubSeq(text, a, b)
    /\ c.isRawSvg
    /\ \A i \in 1..Len(c.name) : c.name[i] \notin OtherChars

\* C7 as stated: the name is the file name with its extension stripped -
\* whatever the extension - and every other character replaced by `_`.
C7_NameWithoutExtension ==
    calls = 1 =>
        IF BeginsRaw /\ HasSpan
        THEN /\ Len(components) = 1
             /\ RawComponentIs(components[1])
             /\ IsUnderscored(components[1].name,
                    IF Len(fileName) >= 2 /\ fileName[Len(fileName) - 1] = "."
                    THEN SubSeq(fileName, 1, Len(fileName) - 2) ELSE fileName)
        ELSE components = <<>>

\* C7, amended: one component when the trimmed text begins with `<svg` or
\* `<?xml` and holds a span `<svg ... </svg>`, else none; the component spans
\* the text, its svg is the span, and its name is the file name without a
\* final `.svg` (in either case; no other extension is stripped), every
\* character that is no letter or digit replaced by `_`.
C7_NameWithoutSvgSuffix ==
    calls = 1 =>
        IF BeginsRaw /\ HasSpan
        THEN /\ Len(components) = 1
             /\ RawComponentIs(components[1])
             /\ IsUnderscored(components[1].name,
                    IF EndsInSvg THEN SubSeq(fileName, 1, Len(fileName) - 2) ELSE fileName)
        ELSE components = <<>>
\* a raw text in a file named icon.xml: the component is named icon_xml
C7_Witness ==
    /\ calls = 1
    /\ fileName = <<"icon", ".", "xml">>
    /\ Len(components) = 1
    /\ components[1].name = <<"icon", "_", "xml">>

-----------------------------------------------------------------------------
(* Claims about the extension *)

\* the component of the current text of document d whose span holds the line
ComponentAt(d, line) == findComponentAtLine(ScanDocument(documents, d), line)
\* the hover shows the image of component c
ShowsImageOf(c) == hover.kind = "image" /\ hover.name = <<c[1].name>>

\* C8: with `enabled` and `showHoverPreview` both true, the hover on a line in
\* the span of a component of the document shows that component's preview
\* image - whatever `showInlineIcon` is, after any sequence of events.
C8_HoverShowsImage ==
    (/\ hover.kind # "none"
     /\ config.enabled
     /\ config.showHoverPreview
     /\ ComponentAt(hover.doc, hover.line) # <<>>)
        => ShowsImageOf(ComponentAt(hover.doc, hover.line))

\* C16: every entry of the hover cache that a hover can be served from (the
\* hover preview is on) is the scan of the current text of its document -
\* after any sequence of events the cache holds no stale list and no list that
\* was computed under another gating.
C16_CacheIsCurrentScan ==
    (config.enabled /\ config.showHoverPreview) =>
        \A d \in DOMAIN componentCache : componentCache[d] = ScanDocument(documents, d)

\* the decoration types of document d that are not disposed, and those of the
\* components of the list cs
DecorationsOf(d) == {k \in decorationTypes : k[1] = d}
OnePerComponent(d, cs) == {<<d, cs[j].name>> : j \in 1..Len(cs)}

\* C18: after a call of updateDecorations for a document its undisposed
\* decoration types are exactly one per component of the list the call
\* returned - none is left of a component that is no longer in the list, and
\* none at all when the list is empty.
C18_DecorationsMatchList ==
    lastUpdate # <<>> =>
        DecorationsOf(lastUpdate[1].doc) = OnePerComponent(lastUpdate[1].doc, lastUpdate[1].returned)

\* the step is a change of the text of the document the active editor shows
ThrottledChange(d) == activeTextEditor = <<d>> /\ documents'[d] # documents[d]
\* the step is the callback of a timer: the timer is gone, the handle is
\* kept, and the extension is neither edited nor deactivated in the step
CallbackRuns ==
    pending' # pending /\ timeout' = timeout /\ edits' = edits /\ activated' = "yes"
\* what a run of update leaves for the document under the settings
RescanOf(d) ==
    [doc |-> d,
     returned |-> IF config.enabled /\ config.showInlineIcon
                    THEN ScanDocument(documents', d) ELSE <<>>]
\* the step of an immediate trigger: another editor, of a supported
\* document, becomes the active one
ImmediateTrigger == activeTextEditor' # activeTextEditor /\ activeTextEditor' # <<>>

\* C19: the debounce of the decoration provider. At most one rescan is
\* pending at any time; a change of the text of the active document runs no
\* rescan itself and leaves its own timer as the only pending one, so that
\* no timer of an earlier change fires between changes; the callback of a
\* timer runs one rescan, of the text the document has then, and leaves
\* nothing pending; an immediate trigger cancels the pending rescan; after
\* dispose nothing is pending, so nothing fires; and a pending rescan is
\* eventually gone, run or cancelled.
C19_Debounce ==
    /\ [](Cardinality(pending) <= 1)
    /\ [][\A d \in Docs : ThrottledChange(d) =>
              /\ lastUpdate' = <<>>
              /\ cachedComponents' = cachedComponents
              /\ decorationTypes' = decorationTypes
              /\ pending' = {[id |-> edits', doc |-> d]}]_vars
    /\ [][CallbackRuns =>
              /\ pending' = {}
              /\ \E t \in pending :
                     /\ lastUpdate' = <<RescanOf(t.doc)>>
                     /\ Has(cachedComponents', t.doc)
                     /\ cachedComponents'[t.doc] = RescanOf(t.doc).returned]_vars
    /\ [][ImmediateTrigger => pending' = {} /\ timeout' = <<>>]_vars
    /\ [](activated = "off" => pending = {})
    /\ [][activated = "off" => UNCHANGED <<cachedComponents, decorationTypes>>]_vars
    /\ (pending # {}) ~> (pending = {})
\* two changes were made, the timer of the second one has fired and its
\* rescan read the text of the second change
C19_Witness ==
    /\ edits = 2
    /\ activated = "yes"
    /\ timeout = <<2>>
    /\ pending = {}
    /\ config.enabled /\ config.showInlineIcon
    /\ lastUpdate = <<[doc |-> "a.tsx", returned |-> ScanDocument(documents, "a.tsx")]>>

====
